---- MODULE Spec2Model ----
(***************************************************************************)
(* github-report: the paginated, throttle-aware retrieval engine of        *)
(* get-data.ts.  One Pagination Driver (retrieveAll) is modelled with its  *)
(* retriever, its timers and the rate-limit prober as a state machine:     *)
(* every action is one macrotask of the JavaScript event loop (a response, *)
(* a rejection or a timer firing) together with all the synchronous code   *)
(* and promise continuations that run before the next macrotask.           *)
(***************************************************************************)
EXTENDS Integers, Sequences, FiniteSets, TLC

VARIABLES
  stream,        \* the remote contribution stream: the pages the API serves
  limitResetAt,  \* retrieveAll's limitResetAt parameter (from the initial probe)
  allRecords,    \* retrieveAll.allRecords, the accumulator
  result,        \* retrieveAll.result, the last page assigned
  mainpc,        \* position of retrieveAll's do/while loop
  chains,        \* the tryPull invocations that are suspended at an await
  nextId,        \* identity of the next tryPull invocation started
  budget,        \* failures the environment may still inject
  rnd,           \* Math.round(Math.random() * BACKOFF_TIME_VARIANCE) in this run
  title,         \* task.title as written by updateLog
  returned,      \* the records retrieveAll resolved with (at resolution)
  error,         \* the value retrieveAll rejected with
  trace,         \* history: retriever calls, probes and timers, in order
  call,          \* a call of a pure function: its name and its arguments
  ret,           \* the value that call returned
  argv,          \* the command line and the environment: token, GH_TOKEN, login, combine
  cli,           \* position of the default command handler
  runpc,         \* position of run
  loginList,     \* run.loginList
  idx,           \* position in loginList of the login the for loop is at
  allData,       \* run.allData
  writes,        \* the calls of writeData so far: [dirPath, data], in order
  sessions,      \* the calls of runForUser so far, in order: one record per call
  fbudget        \* failures the environment may still inject in a run of the command

\* the state of one Pagination Driver
driverVars ==
  <<stream, limitResetAt, allRecords, result, mainpc, chains, nextId, budget,
    rnd, title, returned, error, trace>>

\* a pure function under test
callVars == <<call, ret>>

\* the command: the default handler, run, runForUser and getAllContributions
runVars == <<argv, cli, runpc, loginList, idx, allData, writes, sessions, fbudget>>

\* everything outside the single Pagination Driver of Spec
outside == <<callVars, runVars>>

vars == <<driverVars, outside>>

---------------------------------------------------------------------------
(* Bounds of the model *)

MaxPages == 2
MaxFailures == 5

---------------------------------------------------------------------------
(* Program constants *)

BACKOFF_TIME_BASE == 20 * 1000
BACKOFF_TIME_VARIANCE == 3 * 1000
INTER_PAGE_DELAY == 3000
RESET_SLACK == 1000
SHORT_THROTTLE_TRIES == 4
TICK == 100

NEEDLE == "wait a few minutes"
NULL == 0
NoError == [name |-> "", message |-> ""]
NoCall == [fn |-> ""]
NoData == [pullRequests |-> <<>>, issues |-> <<>>, repos |-> <<>>, reviews |-> <<>>]

---------------------------------------------------------------------------
(* Inputs *)

\* Math.round(Math.random() * BACKOFF_TIME_VARIANCE): the extreme draws
Draws == {0, BACKOFF_TIME_VARIANCE}

\* records on a page, and the totalCount the API reports for a stream
PageSizes == {0, 2}
TotalCounts == {0, 2}

\* resetAt timestamps (ms): the initial probe's and that of a later probe
InitialResets == {60000}
ProbeResets == {120000}

\* errors a retriever call rejects with (Error objects of the GraphQL client)
AbuseError ==
  [name |-> "HttpError",
   message |-> "abuse detection: please wait a few minutes before you try again"]
OtherError == [name |-> "HttpError", message |-> "Bad credentials"]
ProbeError == [name |-> "HttpError", message |-> "probe failed"]
RetrieverErrors == {AbuseError, OtherError}

---------------------------------------------------------------------------
(* Pure helpers *)

\* Math.round of the fraction num / den (num >= 0, den > 0): the nearest integer,
\* a half rounding up
MathRound(num, den) == (2 * num + den) \div (2 * den)

\* mutant: the backoff grows linearly with the attempt count
getBackoffTimeLinear(tries, variance) ==
  (BACKOFF_TIME_BASE + variance) * tries

\* getBackoffTime(tries), with the value of Math.round(Math.random() * VARIANCE)
getBackoffTime(tries, variance) ==
  LET coeff == tries * tries
  IN (BACKOFF_TIME_BASE + variance) * coeff

\* "" + err for an Error object: Error.prototype.toString
StringOf(err) ==
  IF err.name = "" THEN err.message
  ELSE IF err.message = "" THEN err.name
  ELSE err.name \o ": " \o err.message

\* String.prototype.indexOf: 0-based offset of the first occurrence, or -1
IndexOf(s, n) ==
  LET last == Len(s) - Len(n) + 1
      At(i) == SubSeq(s, i, i + Len(n) - 1) = n
  IN IF \E i \in 1..last : At(i)
     THEN (CHOOSE i \in 1..last : At(i) /\ \A j \in 1..(i - 1) : ~At(j)) - 1
     ELSE -1

\* JavaScript truthiness of a number used as an if-condition
Truthy(n) == n # 0

\* mutant: the condition written as indexOf(...) === -1
IsRetriedStrict(err) == IndexOf(StringOf(err), NEEDLE) = -1

\* the condition of the catch block's if: ("" + err).indexOf("wait a few minutes")
IsRetried(err) == Truthy(IndexOf(StringOf(err), NEEDLE))

\* the specification's classification: the error text contains the indicator
IsThrottle(err) == IndexOf(StringOf(err), NEEDLE) # -1

\* mutant: the sentinel page carries a cursor
SentinelWithCursor ==
  [records |-> <<>>,
   totalCount |-> 0,
   pageInfo |-> [hasPreviousPage |-> FALSE, startCursor |-> NULL,
                 hasNextPage |-> TRUE, endCursor |-> 1]]

\* the sentinel page retrieveAll starts from
SentinelPage ==
  [records |-> <<>>,
   totalCount |-> 0,
   pageInfo |-> [hasPreviousPage |-> FALSE, startCursor |-> NULL,
                 hasNextPage |-> TRUE, endCursor |-> NULL]]

\* the page the remote API serves after the end of the stream
PageAfterEnd(total) ==
  [records |-> <<>>,
   totalCount |-> total,
   pageInfo |-> [hasPreviousPage |-> TRUE, startCursor |-> NULL,
                 hasNextPage |-> FALSE, endCursor |-> NULL]]

\* page k of a stream of n pages holding sizes[k] records; records are <<k, i>>
MakePage(k, n, size, total) ==
  [records |-> [i \in 1..size |-> <<k, i>>],
   totalCount |-> total,
   pageInfo |-> [hasPreviousPage |-> k > 1, startCursor |-> k,
                 hasNextPage |-> k < n, endCursor |-> k]]

\* a stream of n pages; totalCount is the same on every page of a stream and
\* need not equal the number of records served
Streams ==
  UNION { { [k \in 1..n |-> MakePage(k, n, sizes[k], total)] :
              sizes \in [1..n -> PageSizes], total \in TotalCounts } :
          n \in 1..MaxPages }

\* recordRetriever(cursor) on success: a falsy cursor asks for the first page,
\* any other cursor for the page after the one it ends
recordRetriever(s, cursor) ==
  IF cursor = NULL THEN s[1]
  ELSE IF \E k \in 1..(Len(s) - 1) : s[k].pageInfo.endCursor = cursor
       THEN s[(CHOOSE k \in 1..(Len(s) - 1) : s[k].pageInfo.endCursor = cursor) + 1]
       ELSE PageAfterEnd(s[1].totalCount)

---------------------------------------------------------------------------
(* retrieveAll *)

\* an entry of the history: op is "fetch" (a retriever call), "backoff", "reset",
\* "inter" (a timer armed; ms its duration, or the instant a reset wait ends) or
\* "probe" (getRateLimitInfo called); c is the tryPull invocation it belongs to
\* and err the rejection that armed a backoff or reset timer
Ev(op, c, ms, err) ==
  [op |-> op, chain |-> c.id, from |-> c.from, cursor |-> c.cursor,
   tries |-> c.tries, limit |-> c.limitResetTime, ms |-> ms, err |-> err]

\* the loop itself, as the owner of the inter-page timer
Loop ==
  [id |-> 0, from |-> 0, cursor |-> NULL, tries |-> 0, limitResetTime |-> 0]

\* updateLog(specialMessage): "{recordName}: {allRecords.length}/{totalCount}"
\* followed by the special message, if any
updateLog(records, page, specialMessage) ==
  [count |-> Len(records), total |-> page.totalCount, note |-> specialMessage]

\* a call tryPull(limitResetTime, tries): it runs synchronously up to the await
\* of recordRetriever(result.pageInfo.endCursor), reading the cursor now.
\* `from` is the invocation whose catch block made the call (0: the loop) and
\* `awaited` tells whether the loop's await waits for this invocation
tryPull(id, from, awaited, limitResetTime, tries) ==
  [id |-> id, from |-> from, awaited |-> awaited, st |-> "fetch",
   cursor |-> result.pageInfo.endCursor, tries |-> tries,
   limitResetTime |-> limitResetTime, ms |-> 0, at |-> 0]

\* mutant: allRecords = records
assign(records, page) == page.records

\* mutant: allRecords.unshift(...records)
unshift(records, page) == page.records \o records

\* allRecords.push(...records)
push(records, page) == records \o page.records

\* mutant: the loop runs until totalCount records are accumulated
hasMoreByTotalCount(r, records) == Len(records) < r.totalCount

\* the condition of the if and of the while: result.pageInfo.hasNextPage
hasMore(r, records) == r.pageInfo.hasNextPage

FetchEv(c) == Ev("fetch", c, 0, NoError)

\* mutant: the inter-page delay is awaited after every page, the last included
LoopAlwaysSleeps(r, records, tr) ==
  /\ mainpc' = "interPage"
  /\ trace' = Append(tr, [op |-> "inter", chain |-> 0, from |-> 0, cursor |-> NULL,
                          tries |-> 0, limit |-> 0, ms |-> 3000,
                          err |-> NoError])
  /\ returned' = returned

\* mutant: the loop is never resumed after the last page
LoopNeverReturns(r, records, tr) ==
  IF hasMore(r, records)
  THEN /\ mainpc' = "interPage"
       /\ trace' = Append(tr, Ev("inter", Loop, INTER_PAGE_DELAY, NoError))
       /\ returned' = returned
  ELSE /\ mainpc' = "await"
       /\ trace' = tr
       /\ returned' = returned

\* the loop body after `await tryPull(limitResetAt)` has resolved, with page r
\* in `result`: either the inter-page timer is armed or the loop ends
LoopAfterTryPull(r, records, tr) ==
  IF hasMore(r, records)
  THEN /\ mainpc' = "interPage"
       /\ trace' = Append(tr, Ev("inter", Loop, INTER_PAGE_DELAY, NoError))
       /\ returned' = returned
  ELSE /\ mainpc' = "done"
       /\ trace' = tr
       /\ returned' = records

\* a rejection of a tryPull invocation: it reaches retrieveAll's caller only if
\* the loop awaits that invocation
Reject(c, err) ==
  /\ chains' = chains \ {c}
  /\ IF c.awaited
     THEN mainpc' = "failed" /\ error' = err
     ELSE UNCHANGED <<mainpc, error>>

\* nothing outside the Pagination Driver takes part in a run
CallIdle ==
  /\ call = NoCall
  /\ ret = NULL

\* the command does not run
RunIdle ==
  /\ argv = [token |-> "", env |-> "", login |-> "", combine |-> FALSE]
  /\ cli = "idle"
  /\ runpc = "idle"
  /\ loginList = <<>>
  /\ idx = 0
  /\ allData = NoData
  /\ writes = <<>>
  /\ sessions = <<>>
  /\ fbudget = 0

OutsideIdle == CallIdle /\ RunIdle

\* the Pagination Driver does not run
DriverIdle ==
  /\ stream = <<>>
  /\ limitResetAt = 0
  /\ allRecords = <<>>
  /\ result = SentinelPage
  /\ mainpc = "idle"
  /\ chains = {}
  /\ nextId = 1
  /\ budget = 0
  /\ rnd = 0
  /\ title = [count |-> 0, total |-> 0, note |-> ""]
  /\ returned = <<>>
  /\ error = NoError
  /\ trace = <<>>

Init ==
  /\ stream \in Streams
  /\ limitResetAt \in InitialResets
  /\ allRecords = <<>>
  /\ result = SentinelPage
  /\ mainpc = "idle"
  /\ chains = {}
  /\ nextId = 1
  /\ budget = MaxFailures
  /\ rnd \in Draws
  /\ title = [count |-> 0, total |-> 0, note |-> ""]
  /\ returned = <<>>
  /\ error = NoError
  /\ trace = <<>>
  /\ OutsideIdle

\* retrieveAll is called: the first iteration calls tryPull(limitResetAt)
Start ==
  /\ mainpc = "idle"
  /\ LET c == tryPull(nextId, 0, TRUE, limitResetAt, 1)
     IN /\ chains' = chains \cup {c}
        /\ trace' = Append(trace, FetchEv(c))
  /\ nextId' = nextId + 1
  /\ mainpc' = "await"
  /\ UNCHANGED outside
  /\ UNCHANGED <<stream, limitResetAt, rnd, allRecords, result, budget, title,
                 returned, error>>

\* the retriever call of invocation c resolves with a page
FetchOk(c) ==
  /\ c \in chains /\ c.st = "fetch"
  /\ LET page == recordRetriever(stream, c.cursor)
         records == push(allRecords, page)
     IN /\ result' = page
        /\ allRecords' = records
        /\ title' = updateLog(records, page, "")
        /\ chains' = chains \ {c}
        /\ IF c.awaited
           THEN LoopAfterTryPull(page, records, trace)
           ELSE UNCHANGED <<mainpc, trace, returned>>
  /\ UNCHANGED outside
  /\ UNCHANGED <<stream, limitResetAt, rnd, nextId, budget, error>>

\* a failure that is not throttle-classified has been injected in this run
OtherFailureSeen ==
  \/ \E i \in DOMAIN trace : trace[i].err # NoError /\ ~IsThrottle(trace[i].err)
  \/ error \in RetrieverErrors /\ ~IsThrottle(error)

\* the retriever call of invocation c rejects with err: the catch block
FetchFail(c, err) ==
  /\ c \in chains /\ c.st = "fetch"
  /\ budget > 0
  /\ IsThrottle(err) \/ ~OtherFailureSeen   \* at most one such failure per run
  /\ budget' = budget - 1
  /\ IF IsRetried(err)
     THEN /\ IF c.tries < SHORT_THROTTLE_TRIES
             THEN LET backoff == getBackoffTime(c.tries, rnd)
                      ev == Ev("backoff", c, backoff, err)
                  IN /\ trace' = Append(trace, ev)
                     /\ chains' = (chains \ {c}) \cup
                          {[c EXCEPT !.st = "backoff", !.ms = backoff,
                                     !.at = Len(trace) + 1]}
             ELSE LET until == RESET_SLACK + c.limitResetTime
                      ev == Ev("reset", c, until, err)
                  IN /\ trace' = Append(trace, ev)
                     /\ chains' = (chains \ {c}) \cup
                          {[c EXCEPT !.st = "resetwait", !.ms = until,
                                     !.at = Len(trace) + 1]}
          /\ UNCHANGED <<mainpc, error>>
     ELSE /\ Reject(c, err)
          /\ trace' = trace
  /\ UNCHANGED outside
  /\ UNCHANGED <<stream, limitResetAt, rnd, allRecords, result, nextId, title,
                 returned>>

\* setTimeout: a timer armed earlier with a duration no longer than that of
\* invocation c's backoff timer fires before it
FiresFirst(c) ==
  /\ ~(/\ mainpc = "interPage"
       /\ INTER_PAGE_DELAY <= c.ms
       /\ \E i \in 1..(c.at - 1) :
            /\ trace[i].op = "inter"
            /\ \A j \in (i + 1)..Len(trace) : trace[j].op # "inter")
  /\ \A d \in chains : ~(d.st = "backoff" /\ d.at < c.at /\ d.ms <= c.ms)

\* the tick function of a backoff or reset wait, every TICK ms: updateLog with
\* the wait note
Tick(c) ==
  /\ c \in chains /\ c.st \in {"backoff", "resetwait"}
  /\ c.st = "backoff" => TICK < c.ms
  /\ title' = updateLog(allRecords, result,
                        IF c.st = "backoff" THEN "triggered abuse detection"
                        ELSE "for full rate limit reset")
  /\ title' # title
  /\ UNCHANGED outside
  /\ UNCHANGED <<stream, limitResetAt, rnd, allRecords, result, mainpc, chains,
                 nextId, budget, returned, error, trace>>

\* mutant: the retry after a backoff starts again from the first page
BackoffDoneFromStart(c) ==
  /\ c \in chains /\ c.st = "backoff"
  /\ title' = [count |-> Len(allRecords), total |-> result.totalCount, note |-> ""]
  /\ LET retry == [c EXCEPT !.st = "fetch", !.cursor = NULL, !.from = c.id,
                            !.tries = c.tries + 1, !.ms = 0, !.at = 0]
     IN /\ chains' = (chains \ {c}) \cup {retry}
        /\ trace' = Append(trace, [op |-> "fetch", chain |-> c.id, from |-> c.id,
                                   cursor |-> NULL, tries |-> c.tries + 1,
                                   limit |-> c.limitResetTime, ms |-> 0,
                                   err |-> NoError])
  /\ UNCHANGED outside
  /\ UNCHANGED <<stream, limitResetAt, rnd, allRecords, result, mainpc, nextId,
                 budget, returned, error>>

\* the backoff timer of invocation c fires: updateLog(), then
\* await tryPull(limitResetTime, tries + 1)
BackoffDone(c) ==
  /\ c \in chains /\ c.st = "backoff"
  /\ FiresFirst(c)
  /\ title' = updateLog(allRecords, result, "")
  /\ LET retry == tryPull(c.id, c.id, c.awaited, c.limitResetTime, c.tries + 1)
     IN /\ chains' = (chains \ {c}) \cup {retry}
        /\ trace' = Append(trace, FetchEv(retry))
  /\ UNCHANGED outside
  /\ UNCHANGED <<stream, limitResetAt, rnd, allRecords, result, mainpc, nextId,
                 budget, returned, error>>

\* the reset-wait timer of invocation c fires: getRateLimitInfo(token) is called
ResetDone(c) ==
  /\ c \in chains /\ c.st = "resetwait"
  /\ chains' = (chains \ {c}) \cup {[c EXCEPT !.st = "probe", !.ms = 0]}
  /\ trace' = Append(trace, Ev("probe", c, 0, NoError))
  /\ UNCHANGED outside
  /\ UNCHANGED <<stream, limitResetAt, rnd, allRecords, result, mainpc, nextId,
                 budget, title, returned, error>>

\* the probe of invocation c answers resetAt: tryPull(newRateInfo.resetAt, 1) is
\* called and not awaited, and invocation c returns
ProbeOk(c, resetAt) ==
  /\ c \in chains /\ c.st = "probe"
  /\ LET retry == tryPull(nextId, c.id, FALSE, resetAt, 1)
     IN /\ chains' = (chains \ {c}) \cup {retry}
        /\ IF c.awaited
           THEN LoopAfterTryPull(result, allRecords, Append(trace, FetchEv(retry)))
           ELSE /\ trace' = Append(trace, FetchEv(retry))
                /\ UNCHANGED <<mainpc, returned>>
  /\ nextId' = nextId + 1
  /\ UNCHANGED outside
  /\ UNCHANGED <<stream, limitResetAt, rnd, allRecords, result, budget, title, error>>

\* the probe of invocation c fails: getRateLimitInfo throws inside the catch block
ProbeFail(c) ==
  /\ c \in chains /\ c.st = "probe"
  /\ budget > 0
  /\ budget' = budget - 1
  /\ Reject(c, ProbeError)
  /\ UNCHANGED outside
  /\ UNCHANGED <<stream, limitResetAt, rnd, allRecords, result, nextId, title,
                 returned, trace>>

\* the inter-page timer fires: the while condition, then the next iteration
InterPageDone ==
  /\ mainpc = "interPage"
  /\ IF hasMore(result, allRecords)
     THEN /\ LET c == tryPull(nextId, 0, TRUE, limitResetAt, 1)
             IN /\ chains' = chains \cup {c}
                /\ trace' = Append(trace, FetchEv(c))
          /\ nextId' = nextId + 1
          /\ mainpc' = "await"
          /\ returned' = returned
     ELSE /\ mainpc' = "done"
          /\ returned' = allRecords
          /\ UNCHANGED <<chains, nextId, trace>>
  /\ UNCHANGED outside
  /\ UNCHANGED <<stream, limitResetAt, rnd, allRecords, result, budget, title, error>>

Next ==
  \/ Start
  \/ \E c \in chains : FetchOk(c)
  \/ \E c \in chains, err \in RetrieverErrors : FetchFail(c, err)
  \/ \E c \in chains : Tick(c)
  \/ \E c \in chains : BackoffDone(c)
  \/ \E c \in chains : ResetDone(c)
  \/ \E c \in chains, r \in ProbeResets : ProbeOk(c, r)
  \/ \E c \in chains : ProbeFail(c)
  \/ InterPageDone

Spec == Init /\ [][Next]_vars

---------------------------------------------------------------------------
(* Long runs: one two-page stream, throttle failures only, every probe answers;
   enough failures for two long-throttle recoveries *)

DeepFailures == 8

InitDeep ==
  /\ stream = [k \in 1..2 |-> MakePage(k, 2, 2, 4)]
  /\ limitResetAt \in InitialResets
  /\ allRecords = <<>>
  /\ result = SentinelPage
  /\ mainpc = "idle"
  /\ chains = {}
  /\ nextId = 1
  /\ budget = DeepFailures
  /\ rnd = 0
  /\ title = [count |-> 0, total |-> 0, note |-> ""]
  /\ returned = <<>>
  /\ error = NoError
  /\ trace = <<>>
  /\ OutsideIdle

NextDeep ==
  \/ Start
  \/ \E c \in chains : FetchOk(c)
  \/ \E c \in chains : FetchFail(c, AbuseError)
  \/ \E c \in chains : BackoffDone(c)
  \/ \E c \in chains : ResetDone(c)
  \/ \E c \in chains, r \in ProbeResets : ProbeOk(c, r)
  \/ InterPageDone

SpecDeep == InitDeep /\ [][NextDeep]_vars

\* Scheduling of the long runs: retrieveAll is called, every outstanding
\* retriever call and probe is answered and every armed timer fires (the event
\* loop runs each due callback); the failures are finitely many
Fairness ==
  /\ WF_vars(Start)
  /\ WF_vars(\E c \in chains : FetchOk(c))
  /\ WF_vars(\E c \in chains : BackoffDone(c))
  /\ WF_vars(\E c \in chains : ResetDone(c))
  /\ WF_vars(\E c \in chains, r \in ProbeResets : ProbeOk(c, r))
  /\ WF_vars(InterPageDone)

SpecDeepFair == InitDeep /\ [][NextDeep]_vars /\ Fairness

---------------------------------------------------------------------------
(* Runs with failing probes: one one-page stream, throttled fetches and probes
   that may fail; enough failures for a recovery inside the retry that an
   earlier recovery started *)

ProbeRunFailures == 9

InitProbes ==
  /\ stream = [k \in 1..1 |-> MakePage(k, 1, 2, 2)]
  /\ limitResetAt \in InitialResets
  /\ allRecords = <<>>
  /\ result = SentinelPage
  /\ mainpc = "idle"
  /\ chains = {}
  /\ nextId = 1
  /\ budget = ProbeRunFailures
  /\ rnd = 0
  /\ title = [count |-> 0, total |-> 0, note |-> ""]
  /\ returned = <<>>
  /\ error = NoError
  /\ trace = <<>>
  /\ OutsideIdle

NextProbes ==
  \/ Start
  \/ \E c \in chains : FetchOk(c)
  \/ \E c \in chains : FetchFail(c, AbuseError)
  \/ \E c \in chains : BackoffDone(c)
  \/ \E c \in chains : ResetDone(c)
  \/ \E c \in chains, r \in ProbeResets : ProbeOk(c, r)
  \/ \E c \in chains : ProbeFail(c)
  \/ InterPageDone

SpecProbes == InitProbes /\ [][NextProbes]_vars

---------------------------------------------------------------------------
(* Runs over a stream one of whose pages reports hasNextPage = true together
   with a null endCursor: the loop does not end by itself, so the number of
   iterations is capped *)

MaxEvents == 12
NullCursorFailures == 2

\* page k of n, reporting no endCursor
MakePageNoCursor(k, n, size, total) ==
  [MakePage(k, n, size, total) EXCEPT !.pageInfo.endCursor = NULL]

NullCursorStreams ==
  { << MakePageNoCursor(1, 2, 2, 4), MakePage(2, 2, 2, 4) >>,
    << MakePage(1, 3, 2, 6), MakePageNoCursor(2, 3, 2, 6), MakePage(3, 3, 2, 6) >> }

InitNullCursor ==
  /\ stream \in NullCursorStreams
  /\ limitResetAt \in InitialResets
  /\ allRecords = <<>>
  /\ result = SentinelPage
  /\ mainpc = "idle"
  /\ chains = {}
  /\ nextId = 1
  /\ budget = NullCursorFailures
  /\ rnd = 0
  /\ title = [count |-> 0, total |-> 0, note |-> ""]
  /\ returned = <<>>
  /\ error = NoError
  /\ trace = <<>>
  /\ OutsideIdle

NextNullCursor ==
  \/ Start
  \/ \E c \in chains : FetchOk(c)
  \/ \E c \in chains : FetchFail(c, AbuseError)
  \/ \E c \in chains : BackoffDone(c)
  \/ Len(trace) < MaxEvents /\ InterPageDone

SpecNullCursor == InitNullCursor /\ [][NextNullCursor]_vars

TypeOK ==
  /\ mainpc \in {"idle", "await", "interPage", "done", "failed"}
  /\ budget \in 0..MaxFailures
  /\ \A c \in chains : c.st \in {"fetch", "backoff", "resetwait", "probe"}

---------------------------------------------------------------------------
(* The failure-free driver, get-data.ts before retries were added: the result
   of retrieveAll for a retriever that serves the stream and never fails *)

RECURSIVE retrieveAllNoRetry(_, _, _)
retrieveAllNoRetry(s, cursor, acc) ==
  LET page == recordRetriever(s, cursor)
      records == acc \o page.records
  IN IF page.pageInfo.hasNextPage
     THEN retrieveAllNoRetry(s, page.pageInfo.endCursor, records)
     ELSE records

---------------------------------------------------------------------------
(* Vocabulary of the properties *)

RECURSIVE ConcatPages(_, _)
ConcatPages(s, k) ==
  IF k = 0 THEN <<>> ELSE ConcatPages(s, k - 1) \o s[k].records

RECURSIVE SumSizes(_, _)
SumSizes(s, k) ==
  IF k = 0 THEN 0 ELSE SumSizes(s, k - 1) + Len(s[k].records)

NoDuplicates(q) == \A i, j \in DOMAIN q : q[i] = q[j] => i = j

\* the failures injected so far in a run of Spec
Failures == MaxFailures - budget
NoFailure == Failures = 0

Fetches == {i \in DOMAIN trace : trace[i].op = "fetch"}
Sleeps == {i \in DOMAIN trace : trace[i].op \in {"inter", "backoff", "reset"}}
InterSleeps == {i \in DOMAIN trace : trace[i].op = "inter"}

\* the cursor of the k-th call of a failure-free run
CursorOfCall(s, k) == IF k = 1 THEN NULL ELSE s[k - 1].pageInfo.endCursor

---------------------------------------------------------------------------
(* C1: when the retriever serves pages flagged [true, ..., true, false] and no
   call fails, retrieveAll returns the concatenation of the pages' records in
   page order: the length is the sum of the page sizes, nothing is duplicated,
   nothing reordered. *)
C1_ReturnsConcatenation ==
  (mainpc = "done" /\ NoFailure) =>
     /\ returned = ConcatPages(stream, Len(stream))
     /\ Len(returned) = SumSizes(stream, Len(stream))
     /\ NoDuplicates(returned)
     /\ allRecords = returned

C1_Witness ==
  /\ mainpc = "done" /\ NoFailure
  /\ Len(stream) = 2
  /\ Len(returned) = 4

(* C2: the loop ends exactly when the page in `result` has hasNextPage = false,
   whatever totalCount says: each time the loop decides (after the awaited
   tryPull, after the inter-page delay), it returns iff hasNextPage is false. *)
C2_LoopEndsOnHasNextPage ==
  [][ (mainpc \in {"await", "interPage"} /\ mainpc' \notin {mainpc, "failed"})
        => (mainpc' = "done" <=> ~result'.pageInfo.hasNextPage) ]_vars

\* a second fetch was issued although the first page already held totalCount
\* records or more
C2_Witness ==
  /\ mainpc = "done"
  /\ Len(stream) = 2
  /\ Len(stream[1].records) >= stream[1].totalCount
  /\ Cardinality(Fetches) = 2

(* C9: a retriever that never fails and serves n pages is called exactly n
   times, first with a null cursor and then with the previous page's endCursor,
   and the 3 s inter-page timer is armed exactly n - 1 times, once between two
   consecutive calls and never after the last page. *)
C9_CallsAndDelays ==
  (mainpc = "done" /\ NoFailure) =>
     LET n == Len(stream)
     IN /\ Len(trace) = 2 * n - 1
        /\ \A k \in 1..n :
             /\ trace[2 * k - 1].op = "fetch"
             /\ trace[2 * k - 1].cursor = CursorOfCall(stream, k)
        /\ \A k \in 1..(n - 1) :
             /\ trace[2 * k].op = "inter"
             /\ trace[2 * k].ms = 3000

C9_Witness ==
  /\ mainpc = "done" /\ NoFailure
  /\ Len(stream) = 2
  /\ Cardinality(Fetches) = 2 /\ Cardinality(InterSleeps) = 1

(* C10: when the first page has hasNextPage = false and the first call succeeds,
   retrieveAll makes exactly one retriever call, arms no timer at all, and
   returns exactly that page's records. *)
C10_SinglePage ==
  (~stream[1].pageInfo.hasNextPage /\ NoFailure /\ mainpc # "idle") =>
     /\ Len(trace) = 1
     /\ trace[1].op = "fetch" /\ trace[1].cursor = NULL
     /\ mainpc \in {"await", "done"}
     /\ mainpc = "done" => returned = stream[1].records /\ chains = {}

C10_Witness ==
  /\ mainpc = "done" /\ NoFailure
  /\ ~stream[1].pageInfo.hasNextPage
  /\ Len(returned) = 2
  /\ Sleeps = {}

\* the rejections that were retried: each armed a backoff or a reset timer
Retried == {i \in DOMAIN trace : trace[i].op \in {"backoff", "reset"}}

\* exactly two failures so far, both throttle-classified, both on the same page:
\* the first and the second attempt of one iteration of the loop
TwoThrottles ==
  /\ Failures = 2
  /\ \E i, j \in Retried :
       /\ i < j /\ Retried = {i, j}
       /\ IsThrottle(trace[i].err) /\ IsThrottle(trace[j].err)
       /\ trace[i].chain = trace[j].chain
       /\ trace[i].tries = 1 /\ trace[j].tries = 2

(* C3: when the retriever fails with a throttle-classified error exactly twice
   on a page and then succeeds, retrieveAll does not fail, and what it returns is
   what the failure-free driver returns for the same stream. *)
C3_TwoThrottlesThenSuccess ==
  TwoThrottles =>
     /\ mainpc # "failed"
     /\ mainpc = "done" =>
          /\ returned = retrieveAllNoRetry(stream, NULL, <<>>)
          /\ allRecords = returned

\* both failures hit the second page of a two-page stream
C3_Witness ==
  /\ TwoThrottles /\ mainpc = "done"
  /\ Len(stream) = 2 /\ Len(returned) = 4
  /\ \A i \in Retried : trace[i].cursor = stream[1].pageInfo.endCursor

(* C4: a retriever failure that is not throttle-classified (its text does not
   contain "wait a few minutes") makes retrieveAll fail at once with that error:
   no backoff or reset timer is armed for it and the fetch is not retried. *)
C4_NonThrottleIsFatal ==
  /\ \A i \in Retried : IsThrottle(trace[i].err)
  /\ OtherFailureSeen => (mainpc = "failed" /\ error = OtherError)

(* C5: throttle errors never reach the caller: whatever the number and the
   placement of the throttle-classified failures, on the short and on the long
   path, retrieveAll never rejects with one of them. *)
C5_ThrottleNeverPropagates ==
  mainpc = "failed" => ~IsThrottle(error)

\* throttle failures on the short and on the long path, and retrieveAll returned
C5_Witness ==
  /\ mainpc = "done"
  /\ \E i \in Retried : trace[i].op = "backoff" /\ IsThrottle(trace[i].err)
  /\ \E i \in Retried : trace[i].op = "reset" /\ IsThrottle(trace[i].err)

(* C6: short-throttle path: after a throttle-classified failure at attempt
   a < 4 the driver sleeps getBackoffTime(a) and then retries the same page: the
   next retriever call of the stream is that retry, with the same cursor and
   attempt a + 1. *)
C6_ShortThrottle ==
  \A i \in Retried :
     (trace[i].op = "backoff" /\ IsThrottle(trace[i].err)) =>
        /\ trace[i].tries < 4
        /\ trace[i].ms = (20000 + rnd) * trace[i].tries * trace[i].tries
        /\ \A j \in (i + 1)..Len(trace) :
             (/\ trace[j].op = "fetch"
              /\ \A k \in (i + 1)..(j - 1) : trace[k].op # "fetch") =>
                /\ trace[j].chain = trace[i].chain
                /\ trace[j].cursor = trace[i].cursor
                /\ trace[j].tries = trace[i].tries + 1

(* C7: long-throttle path: after a throttle-classified failure at attempt >= 4
   the driver sleeps until resetAt + 1 s, then probes the rate limit, then
   retries the same page: same cursor, attempt 1, the probed reset time. *)
C7_LongThrottle ==
  \A i \in Retried :
     (trace[i].op = "reset" /\ IsThrottle(trace[i].err)) =>
        /\ trace[i].tries >= 4
        /\ trace[i].ms = trace[i].limit + 1000
        /\ \A j \in (i + 1)..Len(trace) :
             (/\ trace[j].op = "fetch"
              /\ trace[j].from = trace[i].chain
              /\ trace[j].chain # trace[i].chain) =>
                /\ \E k \in (i + 1)..(j - 1) :
                     trace[k].op = "probe" /\ trace[k].chain = trace[i].chain
                /\ trace[j].cursor = trace[i].cursor
                /\ trace[j].tries = 1
                /\ trace[j].limit \in ProbeResets

(* C8: within a stream at most one retriever call is outstanding at any time,
   and the loop does not go on (inter-page delay, next fetch, return) while a
   retry started by a throttle recovery is still running. *)
C8_OneCallAtATime ==
  /\ Cardinality({c \in chains : c.st = "fetch"}) <= 1
  /\ mainpc \in {"interPage", "done"} => chains = {}

---------------------------------------------------------------------------
(* The command: default handler -> run -> runForUser -> getAllContributions ->
   four Pagination Drivers.  A driver is a record here, and its steps are the
   steps of retrieveAll above, written as functions of that record. *)

MaxRunFailures == 2

\* the four contribution kinds, in the order the "Retrieving data" list starts them
Kinds == <<"pullRequests", "issues", "reviews", "repos">>
KindSet == {Kinds[n] : n \in DOMAIN Kinds}

\* command lines: --token (default "$GH_TOKEN") with the GH_TOKEN variable,
\* --login (absent: ""), --combine
TokenArgs ==
  { [token |-> "$GH_TOKEN", env |-> ""], [token |-> "$GH_TOKEN", env |-> "e"],
    [token |-> "", env |-> ""], [token |-> "", env |-> "e"],
    [token |-> "t", env |-> ""] }
LoginArgs == {"", "a", "a, b", ",b"}
outDir == "out"

\* what the viewer-identity query answers for the token's owner
ViewerLogins == {"a", "b", ""}

\* resetAt of the rate-limit probes of getAllContributions
CheckResets == {60000}

TokenError ==
  [name |-> "Error",
   message |-> "Invalid github token. Please use the -t argument or GH_TOKEN environment variable"]
LoginError == [name |-> "Error", message |-> "Could not determine login"]
NotIterable == [name |-> "TypeError", message |-> "undefined is not iterable"]
ViewerError == [name |-> "HttpError", message |-> "viewer query failed"]

\* a raw record of the API; intact: the nested objects the normalizer
\* destructures are all there
Raw(login, kind, n, intact) ==
  [login |-> login, kind |-> kind, n |-> n, intact |-> intact]

\* the contributions of a login: one page per kind
RecordsOf(login, kind) ==
  CASE kind = "pullRequests" ->
         <<Raw(login, kind, 1, TRUE), Raw(login, kind, 2, FALSE),
           Raw(login, kind, 3, TRUE)>>
    [] kind = "issues" -> <<Raw(login, kind, 1, TRUE)>>
    [] kind = "reviews" -> <<>>
    [] kind = "repos" -> <<Raw(login, kind, 1, login # "b")>>

\* the stream a record retriever of (login, kind) serves
RemoteStream(login, kind) ==
  << [records |-> RecordsOf(login, kind),
      totalCount |-> Len(RecordsOf(login, kind)),
      pageInfo |-> [hasPreviousPage |-> FALSE, startCursor |-> 1,
                    hasNextPage |-> FALSE, endCursor |-> 1]] >>

\* path.join(outDir, i)
join(dir, name) == IF name = "" THEN dir ELSE dir \o "/" \o name

RECURSIVE TrimRight(_)
TrimRight(s) ==
  IF Len(s) > 0 /\ SubSeq(s, Len(s), Len(s)) = " "
  THEN TrimRight(SubSeq(s, 1, Len(s) - 1)) ELSE s

RECURSIVE TrimLeft(_)
TrimLeft(s) ==
  IF Len(s) > 0 /\ SubSeq(s, 1, 1) = " "
  THEN TrimLeft(SubSeq(s, 2, Len(s))) ELSE s

\* logins.split(/\s*,\s*/g)
RECURSIVE split(_)
split(s) ==
  LET c == IndexOf(s, ",")
  IN IF c = -1 THEN <<s>>
     ELSE <<TrimRight(SubSeq(s, 1, c))>> \o split(TrimLeft(SubSeq(s, c + 2, Len(s))))

\* normalizePullRequest, normalizeIssue, normalizeRepoCreation,
\* normalizePullRequestReview: the flat record of a raw one; the destructuring
\* throws when a nested object is missing
normalizeThrows(x) == ~x.intact
normalize(x) ==
  [kind |-> x.kind, url |-> <<x.login, x.n>>,
   user |-> IF x.kind = "repos" THEN "" ELSE x.login]

\* null, the value the catch block of the map callback returns
NullRecord == [kind |-> "", url |-> <<>>, user |-> ""]
isDefined(arg) == arg # NullRecord

\* xs.map(x => { try { return normalize(x) } catch (e) { return null } })
RECURSIVE mapNormalize(_)
mapNormalize(xs) ==
  IF xs = <<>> THEN <<>>
  ELSE <<IF normalizeThrows(Head(xs)) THEN NullRecord ELSE normalize(Head(xs))>>
         \o mapNormalize(Tail(xs))

\* mutant: the records after the first one that fails to normalize are lost
RECURSIVE normalizedUntilFailure(_)
normalizedUntilFailure(xs) ==
  IF xs = <<>> \/ normalizeThrows(Head(xs)) THEN <<>>
  ELSE <<normalize(Head(xs))>> \o normalizedUntilFailure(Tail(xs))

\* xs.map(...).filter(isDefined)
normalized(xs) == SelectSeq(mapNormalize(xs), isDefined)

\* what runForUser returns for the contributions getAllContributions returned
userDataOf(login, contrib) ==
  [pullRequests |-> normalized(contrib.pullRequests),
   issues |-> normalized(contrib.issues),
   repos |-> [n \in DOMAIN normalized(contrib.repos) |->
                [normalized(contrib.repos)[n] EXCEPT !.user = login]],
   reviews |-> normalized(contrib.reviews)]

\* mutant: the combined set keeps the last user's records only
replaceData(all, userData) == userData

\* the combine branch of run's loop: allData.x = [...allData.x, ...userData.x]
mergeData(all, userData) ==
  [pullRequests |-> all.pullRequests \o userData.pullRequests,
   issues |-> all.issues \o userData.issues,
   repos |-> all.repos \o userData.repos,
   reviews |-> all.reviews \o userData.reviews]

---------------------------------------------------------------------------
(* A Pagination Driver as a record d: pc, allRecords, result, chains (the
   suspended tryPull invocations), nextId, returned, error, limitResetAt *)

\* tryPull(limitResetTime, tries) of driver d, up to the await of the retriever
dTryPull(d, id, awaited, limitResetTime, tries) ==
  [id |-> id, awaited |-> awaited, st |-> "fetch",
   cursor |-> d.result.pageInfo.endCursor, tries |-> tries,
   limitResetTime |-> limitResetTime]

IdleDriver ==
  [pc |-> "idle", allRecords |-> <<>>, result |-> SentinelPage, chains |-> {},
   nextId |-> 1, returned |-> <<>>, error |-> NoError, limitResetAt |-> 0]

\* mutant: the drivers are started before limitResetTime is assigned
dStartUnprobed(limitResetTime) ==
  [IdleDriver EXCEPT !.pc = "await", !.nextId = 2,
                     !.chains = {dTryPull(IdleDriver, 1, TRUE, 0, 1)}]

\* retrieveAll(recordRetriever, recordName, task, token, limitResetAt) is called
dStart(limitResetTime) ==
  LET d == [IdleDriver EXCEPT !.limitResetAt = limitResetTime]
  IN [d EXCEPT !.pc = "await", !.nextId = 2,
               !.chains = {dTryPull(d, 1, TRUE, limitResetTime, 1)}]

\* the loop after `await tryPull(limitResetAt)`
dLoop(d) ==
  IF hasMore(d.result, d.allRecords)
  THEN [d EXCEPT !.pc = "interPage"]
  ELSE [d EXCEPT !.pc = "done", !.returned = d.allRecords]

\* a tryPull invocation rejects
dReject(d, c, err) ==
  IF c.awaited
  THEN [d EXCEPT !.chains = d.chains \ {c}, !.pc = "failed", !.error = err]
  ELSE [d EXCEPT !.chains = d.chains \ {c}]

dFetchOk(d, c, s) ==
  LET page == recordRetriever(s, c.cursor)
      e == [d EXCEPT !.result = page, !.allRecords = push(d.allRecords, page),
                     !.chains = d.chains \ {c}]
  IN IF c.awaited THEN dLoop(e) ELSE e

dFetchFail(d, c, err) ==
  IF IsRetried(err)
  THEN [d EXCEPT !.chains = (d.chains \ {c}) \cup
          {[c EXCEPT !.st = IF c.tries < SHORT_THROTTLE_TRIES
                            THEN "backoff" ELSE "resetwait"]}]
  ELSE dReject(d, c, err)

\* mutant: the rate limit is probed after a backoff as well
dBackoffDoneProbes(d, c) ==
  [d EXCEPT !.chains = (d.chains \ {c}) \cup {[c EXCEPT !.st = "probe"]}]

dBackoffDone(d, c) ==
  [d EXCEPT !.chains = (d.chains \ {c}) \cup
     {dTryPull(d, c.id, c.awaited, c.limitResetTime, c.tries + 1)}]

dResetDone(d, c) ==
  [d EXCEPT !.chains = (d.chains \ {c}) \cup {[c EXCEPT !.st = "probe"]}]

dProbeOk(d, c, resetAt) ==
  LET e == [d EXCEPT !.chains = (d.chains \ {c}) \cup
                        {dTryPull(d, d.nextId, FALSE, resetAt, 1)},
                     !.nextId = d.nextId + 1]
  IN IF c.awaited THEN dLoop(e) ELSE e

dInterPageDone(d) ==
  IF hasMore(d.result, d.allRecords)
  THEN [d EXCEPT !.pc = "await", !.nextId = d.nextId + 1,
                 !.chains = d.chains \cup
                    {dTryPull(d, d.nextId, TRUE, d.limitResetAt, 1)}]
  ELSE [d EXCEPT !.pc = "done", !.returned = d.allRecords]

---------------------------------------------------------------------------
(* getAllContributions, runForUser and run.  A session is one call of
   runForUser: entry (the rawLogin it was called with), login, pc ("viewer",
   "orch", "done", "failed"), listr (the task list of getAllContributions:
   "probe", "probeWait", "retrieve", "resolved", "rejected"), timer (timeout(500):
   "armed", "fired"), dataPromise, limitResetTime, the four drivers, the
   contributions returned, the normalized data and the calls it made *)

NoSummary == [k \in KindSet |-> -1]

\* runForUser(entry) up to its first await
runForUser(entry) ==
  [entry |-> entry,
   foundLogin |-> "",
   login |-> entry,
   pc |-> IF entry = "" THEN "viewer" ELSE "orch",
   listr |-> IF entry = "" THEN "none" ELSE "probe",
   timer |-> IF entry = "" THEN "none" ELSE "armed",
   dataPromise |-> "unset",
   limitResetTime |-> 0,
   drv |-> [k \in KindSet |-> IdleDriver],
   contrib |-> NoData,
   data |-> NoData,
   summary |-> NoSummary,
   viewerCalls |-> IF entry = "" THEN 1 ELSE 0,
   probeCalls |-> IF entry = "" THEN 0 ELSE 1,
   probeFails |-> 0,
   error |-> NoError]

\* getAllContributions(login, ...) up to `await timeout(500)`: tasks.run() calls
\* getRateLimitInfo, then the 500 ms timer is armed
getAllContributions(v, login) ==
  [v EXCEPT !.login = login, !.pc = "orch", !.listr = "probe",
            !.timer = "armed", !.probeCalls = 1]

\* the "Cleaning up" task: await dataPromise, destructure, set the title
cleaningUp(v) ==
  CASE v.dataPromise = "unset" ->
         [v EXCEPT !.listr = "rejected", !.error = NotIterable]
    [] v.dataPromise = "undefined" ->
         [v EXCEPT !.listr = "resolved", !.summary = [k \in KindSet |-> 0]]
    [] v.dataPromise = "promises" ->
         [v EXCEPT !.listr = "resolved",
                   !.summary = [k \in KindSet |-> Len(v.drv[k].allRecords)]]

\* the task list after a step of one of its drivers: the concurrent list
\* rejects with the first driver that fails, and when the four have resolved
\* "Cleaning up" runs
listrAfter(v) ==
  IF v.listr # "retrieve" THEN v
  ELSE IF \E k \in KindSet : v.drv[k].pc = "failed"
  THEN [v EXCEPT !.listr = "rejected",
                 !.error = v.drv[CHOOSE k \in KindSet : v.drv[k].pc = "failed"].error]
  ELSE IF \A k \in KindSet : v.drv[k].pc = "done"
  THEN cleaningUp(v)
  ELSE v

\* the object getAllContributions returns: each promise resolved with the
\* allRecords array of its driver
contributions(drv) ==
  [pullRequests |-> drv["pullRequests"].allRecords,
   reviews |-> drv["reviews"].allRecords,
   issues |-> drv["issues"].allRecords,
   repos |-> drv["repos"].allRecords]

\* mutant: getAllContributions returns as soon as the timer has fired
orchAfterTimerOnly(v) ==
  LET w == listrAfter(v)
  IN IF w.pc = "orch" /\ w.timer = "fired" /\ w.listr = "rejected"
     THEN [w EXCEPT !.pc = "failed"]
     ELSE IF w.pc = "orch" /\ w.timer = "fired" /\ w.listr \in {"retrieve", "resolved"}
     THEN [w EXCEPT !.pc = "done", !.contrib = contributions(w.drv),
                    !.data = userDataOf(w.login, contributions(w.drv))]
     ELSE w

\* getAllContributions after `await timeout(500)`: `await run` and the return,
\* and runForUser's normalization of what it returned
orchAfter(v) ==
  LET w == listrAfter(v)
  IN IF w.pc = "orch" /\ w.timer = "fired" /\ w.listr = "rejected"
     THEN [w EXCEPT !.pc = "failed"]
     ELSE IF w.pc = "orch" /\ w.timer = "fired" /\ w.listr = "resolved"
     THEN [w EXCEPT !.pc = "done", !.contrib = contributions(w.drv),
                    !.data = userDataOf(w.login, contributions(w.drv))]
     ELSE w

\* writeData(data, dirPath)
writeData(ws, data, dirPath) == Append(ws, [dirPath |-> dirPath, data |-> data])

\* mutant: run catches the failure of a login and goes on with the next one
ContinuePastFailure(i, v) ==
  LET ss == [sessions EXCEPT ![i] = v]
  IN IF \/ i # Len(sessions)
        \/ runpc \notin {"single", "loop"}
        \/ v.pc \notin {"done", "failed"}
     THEN /\ sessions' = ss
          /\ UNCHANGED <<runpc, idx, allData, writes>>
     ELSE IF v.pc = "failed" /\ (runpc = "single" \/ idx = Len(loginList))
     THEN /\ sessions' = ss
          /\ runpc' = "failed"
          /\ UNCHANGED <<idx, allData, writes>>
     ELSE IF v.pc = "failed"
     THEN /\ sessions' = Append(ss, runForUser(loginList[idx + 1]))
          /\ idx' = idx + 1
          /\ UNCHANGED <<runpc, allData, writes>>
     ELSE IF runpc = "single"
     THEN /\ sessions' = ss
          /\ writes' = writeData(writes, v.data, outDir)
          /\ runpc' = "done"
          /\ UNCHANGED <<idx, allData>>
     ELSE LET all == IF argv.combine THEN mergeData(allData, v.data) ELSE allData
              ws == IF argv.combine THEN writes
                    ELSE writeData(writes, v.data, join(outDir, loginList[idx]))
          IN /\ allData' = all
             /\ IF idx < Len(loginList)
                THEN /\ idx' = idx + 1
                     /\ sessions' = Append(ss, runForUser(loginList[idx + 1]))
                     /\ writes' = ws
                     /\ runpc' = runpc
                ELSE /\ idx' = idx
                     /\ sessions' = ss
                     /\ runpc' = "done"
                     /\ writes' = IF argv.combine THEN writeData(ws, all, outDir)
                                  ELSE ws

\* run after a step of session i that left it as v: when the awaited runForUser
\* has settled, run fails with it or goes on to the write, the next login, the end
Continue(i, v) ==
  LET ss == [sessions EXCEPT ![i] = v]
  IN IF \/ i # Len(sessions)
        \/ runpc \notin {"single", "loop"}
        \/ v.pc \notin {"done", "failed"}
     THEN /\ sessions' = ss
          /\ UNCHANGED <<runpc, idx, allData, writes>>
     ELSE IF v.pc = "failed"
     THEN /\ sessions' = ss
          /\ runpc' = "failed"
          /\ UNCHANGED <<idx, allData, writes>>
     ELSE IF runpc = "single"
     THEN /\ sessions' = ss
          /\ writes' = writeData(writes, v.data, outDir)
          /\ runpc' = "done"
          /\ UNCHANGED <<idx, allData>>
     ELSE LET all == IF argv.combine THEN mergeData(allData, v.data) ELSE allData
              ws == IF argv.combine THEN writes
                    ELSE writeData(writes, v.data, join(outDir, loginList[idx]))
          IN /\ allData' = all
             /\ IF idx < Len(loginList)
                THEN /\ idx' = idx + 1
                     /\ sessions' = Append(ss, runForUser(loginList[idx + 1]))
                     /\ writes' = ws
                     /\ runpc' = runpc
                ELSE /\ idx' = idx
                     /\ sessions' = ss
                     /\ runpc' = "done"
                     /\ writes' = IF argv.combine THEN writeData(ws, all, outDir)
                                  ELSE ws

\* the session run is awaiting
Current == Len(sessions)

InitRun ==
  /\ DriverIdle
  /\ CallIdle
  /\ \E t \in TokenArgs, l \in LoginArgs, c \in BOOLEAN :
       argv = [token |-> t.token, env |-> t.env, login |-> l, combine |-> c]
  /\ cli = "start"
  /\ runpc = "idle"
  /\ loginList = <<>>
  /\ idx = 0
  /\ allData = NoData
  /\ writes = <<>>
  /\ sessions = <<>>
  /\ fbudget = MaxRunFailures

\* mutant: only a token taken from the environment is checked
CliMainEnvOnly ==
  /\ cli = "start"
  /\ IF argv.token = "$GH_TOKEN" /\ argv.env = ""
     THEN /\ cli' = "thrown"
          /\ UNCHANGED <<runpc, loginList, idx, sessions>>
     ELSE /\ cli' = "called"
          /\ IF argv.login = ""
             THEN /\ runpc' = "single"
                  /\ sessions' = <<runForUser("")>>
                  /\ UNCHANGED <<loginList, idx>>
             ELSE /\ runpc' = "loop"
                  /\ loginList' = split(argv.login)
                  /\ idx' = 1
                  /\ sessions' = <<runForUser(split(argv.login)[1])>>
  /\ UNCHANGED <<driverVars, callVars, argv, allData, writes, fbudget>>

\* the default command handler: the token check, then run(...) up to its
\* first await
CliMain ==
  /\ cli = "start"
  /\ LET token == IF argv.token = "$GH_TOKEN" THEN argv.env ELSE argv.token
     IN IF token = ""
        THEN /\ cli' = "thrown"
             /\ UNCHANGED <<runpc, loginList, idx, sessions>>
        ELSE /\ cli' = "called"
             /\ IF argv.login = ""
                THEN /\ runpc' = "single"
                     /\ sessions' = <<runForUser("")>>
                     /\ UNCHANGED <<loginList, idx>>
                ELSE /\ runpc' = "loop"
                     /\ loginList' = split(argv.login)
                     /\ idx' = 1
                     /\ sessions' = <<runForUser(split(argv.login)[1])>>
  /\ UNCHANGED <<driverVars, callVars, argv, allData, writes, fbudget>>

\* mutant: the login the viewer query found is not checked
ViewerOkUnchecked(foundLogin) ==
  /\ sessions # <<>> /\ sessions[Current].pc = "viewer"
  /\ Continue(Current, getAllContributions(
                          [sessions[Current] EXCEPT !.foundLogin = foundLogin],
                          foundLogin))
  /\ UNCHANGED <<driverVars, callVars, argv, cli, loginList, fbudget>>

\* the viewer query answers: foundLogin
ViewerOk(foundLogin) ==
  /\ sessions # <<>> /\ sessions[Current].pc = "viewer"
  /\ LET v == sessions[Current]
     IN IF foundLogin = ""
        THEN Continue(Current, [v EXCEPT !.pc = "failed", !.error = LoginError])
        ELSE Continue(Current, getAllContributions([v EXCEPT !.foundLogin = foundLogin],
                                                   foundLogin))
  /\ UNCHANGED <<driverVars, callVars, argv, cli, loginList, fbudget>>

\* the viewer query fails
ViewerFail ==
  /\ sessions # <<>> /\ sessions[Current].pc = "viewer"
  /\ fbudget > 0
  /\ fbudget' = fbudget - 1
  /\ Continue(Current, [sessions[Current] EXCEPT !.pc = "failed",
                                                  !.error = ViewerError])
  /\ UNCHANGED <<driverVars, callVars, argv, cli, loginList>>

\* check(): getRateLimitInfo answers; "Retrieving data" starts the four drivers
CheckOk(resetAt) ==
  /\ sessions # <<>> /\ sessions[Current].listr = "probe"
  /\ LET v == sessions[Current]
     IN Continue(Current,
                 [v EXCEPT !.limitResetTime = resetAt, !.listr = "retrieve",
                           !.drv = [k \in KindSet |-> dStart(resetAt)]])
  /\ UNCHANGED <<driverVars, callVars, argv, cli, loginList, fbudget>>

\* mutant: the error of check() is not caught
CheckFailFatal ==
  /\ sessions # <<>> /\ sessions[Current].listr = "probe"
  /\ fbudget > 0
  /\ fbudget' = fbudget - 1
  /\ LET v == sessions[Current]
     IN Continue(Current,
                 orchAfter([v EXCEPT !.listr = "rejected", !.error = ProbeError,
                                     !.probeFails = v.probeFails + 1]))
  /\ UNCHANGED <<driverVars, callVars, argv, cli, loginList>>

\* check() throws: attemptCheck catches and awaits timeout(10000)
CheckFail ==
  /\ sessions # <<>> /\ sessions[Current].listr = "probe"
  /\ fbudget > 0
  /\ fbudget' = fbudget - 1
  /\ LET v == sessions[Current]
     IN Continue(Current, [v EXCEPT !.listr = "probeWait",
                                    !.probeFails = v.probeFails + 1])
  /\ UNCHANGED <<driverVars, callVars, argv, cli, loginList>>

\* the 10 s timer fires: attemptCheck calls itself
CheckRetry ==
  /\ sessions # <<>> /\ sessions[Current].listr = "probeWait"
  /\ sessions[Current].timer = "fired"
  /\ LET v == sessions[Current]
     IN Continue(Current, [v EXCEPT !.listr = "probe",
                                    !.probeCalls = v.probeCalls + 1])
  /\ UNCHANGED <<driverVars, callVars, argv, cli, loginList, fbudget>>

\* the 500 ms timer fires: dataPromise = Promise.all([pIssues, pRepos, pReviews,
\* pPullRequests]) with whatever the four variables hold now, then `await run`
DataPromiseTimer ==
  /\ sessions # <<>> /\ sessions[Current].timer = "armed"
  /\ LET v == sessions[Current]
     IN Continue(Current,
          orchAfter([v EXCEPT !.timer = "fired",
                              !.dataPromise =
                                 IF v.listr \in {"probe", "probeWait"}
                                 THEN "undefined" ELSE "promises"]))
  /\ UNCHANGED <<driverVars, callVars, argv, cli, loginList, fbudget>>

\* a step of driver k of session i that leaves the driver as d
Drive(i, k, d) ==
  /\ Continue(i, orchAfter([sessions[i] EXCEPT !.drv[k] = d]))
  /\ UNCHANGED <<driverVars, callVars, argv, cli, loginList>>

StreamFetchOk(i, k, c) ==
  /\ c \in sessions[i].drv[k].chains /\ c.st = "fetch"
  /\ Drive(i, k, dFetchOk(sessions[i].drv[k], c,
                          RemoteStream(sessions[i].login, k)))
  /\ UNCHANGED fbudget

\* mutant: the attempt counter is one variable of the four drivers
StreamFetchFailShared(i, k, c) ==
  /\ c \in sessions[i].drv[k].chains /\ c.st = "fetch"
  /\ fbudget > 0
  /\ fbudget' = fbudget - 1
  /\ LET v == [sessions[i] EXCEPT
                 !.drv = [j \in KindSet |->
                            [sessions[i].drv[j] EXCEPT
                               !.chains = {[x EXCEPT !.tries = c.tries + 1] :
                                             x \in sessions[i].drv[j].chains \ {c}}
                                          \cup (sessions[i].drv[j].chains \cap {c})]]]
     IN /\ Continue(i, orchAfter([v EXCEPT
                                    !.drv[k] = dFetchFail(v.drv[k], c, AbuseError)]))
        /\ UNCHANGED <<driverVars, callVars, argv, cli, loginList>>

StreamFetchFail(i, k, c) ==
  /\ c \in sessions[i].drv[k].chains /\ c.st = "fetch"
  /\ fbudget > 0
  /\ fbudget' = fbudget - 1
  /\ Drive(i, k, dFetchFail(sessions[i].drv[k], c, AbuseError))

StreamBackoffDone(i, k, c) ==
  /\ c \in sessions[i].drv[k].chains /\ c.st = "backoff"
  /\ sessions[i].timer = "fired"
  /\ Drive(i, k, dBackoffDone(sessions[i].drv[k], c))
  /\ UNCHANGED fbudget

StreamResetDone(i, k, c) ==
  /\ c \in sessions[i].drv[k].chains /\ c.st = "resetwait"
  /\ Drive(i, k, dResetDone(sessions[i].drv[k], c))
  /\ UNCHANGED fbudget

\* mutant: the probed reset time is stored where the four drivers read it
StreamProbeOkShared(i, k, c, resetAt) ==
  /\ c \in sessions[i].drv[k].chains /\ c.st = "probe"
  /\ LET v == [sessions[i] EXCEPT
                 !.limitResetTime = resetAt,
                 !.drv = [j \in KindSet |->
                            [sessions[i].drv[j] EXCEPT
                               !.limitResetAt = resetAt,
                               !.chains = {[x EXCEPT !.limitResetTime = resetAt] :
                                             x \in sessions[i].drv[j].chains}]]]
     IN /\ Continue(i, orchAfter([v EXCEPT
               !.drv[k] = dProbeOk(v.drv[k],
                                   [c EXCEPT !.limitResetTime = resetAt],
                                   resetAt)]))
        /\ UNCHANGED <<driverVars, callVars, argv, cli, loginList>>
  /\ UNCHANGED fbudget

StreamProbeOk(i, k, c, resetAt) ==
  /\ c \in sessions[i].drv[k].chains /\ c.st = "probe"
  /\ Drive(i, k, dProbeOk(sessions[i].drv[k], c, resetAt))
  /\ UNCHANGED fbudget

StreamProbeFail(i, k, c) ==
  /\ c \in sessions[i].drv[k].chains /\ c.st = "probe"
  /\ fbudget > 0
  /\ fbudget' = fbudget - 1
  /\ Drive(i, k, dReject(sessions[i].drv[k], c, ProbeError))

StreamInterPageDone(i, k) ==
  /\ sessions[i].drv[k].pc = "interPage"
  /\ sessions[i].timer = "fired"
  /\ Drive(i, k, dInterPageDone(sessions[i].drv[k]))
  /\ UNCHANGED fbudget

\* the tryPull invocations of driver k of session i
ChainsOf(i, k) == sessions[i].drv[k].chains

NextRun ==
  \/ CliMain
  \/ \E foundLogin \in ViewerLogins : ViewerOk(foundLogin)
  \/ ViewerFail
  \/ \E resetAt \in CheckResets : CheckOk(resetAt)
  \/ CheckFail
  \/ CheckRetry
  \/ DataPromiseTimer
  \/ \E i \in DOMAIN sessions, k \in KindSet :
       \E c \in ChainsOf(i, k) : StreamFetchOk(i, k, c)
  \/ \E i \in DOMAIN sessions, k \in KindSet :
       \E c \in ChainsOf(i, k) : StreamFetchFail(i, k, c)
  \/ \E i \in DOMAIN sessions, k \in KindSet :
       \E c \in ChainsOf(i, k) : StreamBackoffDone(i, k, c)

SpecRun == InitRun /\ [][NextRun]_vars

---------------------------------------------------------------------------
(* Long runs of the command: two logins, no combine; the failures are throttled
   fetches and failed probes, enough of them for a long-throttle recovery *)

DeepRunFailures == 5

InitRunDeep ==
  /\ DriverIdle
  /\ CallIdle
  /\ argv = [token |-> "t", env |-> "", login |-> "a, b", combine |-> FALSE]
  /\ cli = "start"
  /\ runpc = "idle"
  /\ loginList = <<>>
  /\ idx = 0
  /\ allData = NoData
  /\ writes = <<>>
  /\ sessions = <<>>
  /\ fbudget = DeepRunFailures

NextRunDeep ==
  \/ CliMain
  \/ \E resetAt \in CheckResets : CheckOk(resetAt)
  \/ CheckFail
  \/ CheckRetry
  \/ DataPromiseTimer
  \/ \E i \in DOMAIN sessions, k \in KindSet :
       \E c \in ChainsOf(i, k) : StreamFetchOk(i, k, c)
  \/ \E i \in DOMAIN sessions, k \in KindSet :
       \E c \in ChainsOf(i, k) : StreamFetchFail(i, k, c)
  \/ \E i \in DOMAIN sessions, k \in KindSet :
       \E c \in ChainsOf(i, k) : StreamBackoffDone(i, k, c)
  \/ \E i \in DOMAIN sessions, k \in KindSet :
       \E c \in ChainsOf(i, k) : StreamResetDone(i, k, c)
  \/ \E i \in DOMAIN sessions, k \in KindSet :
       \E c \in ChainsOf(i, k), resetAt \in ProbeResets :
          StreamProbeOk(i, k, c, resetAt)
  \/ \E i \in DOMAIN sessions, k \in KindSet :
       \E c \in ChainsOf(i, k) : StreamProbeFail(i, k, c)
  \/ \E i \in DOMAIN sessions, k \in KindSet : StreamInterPageDone(i, k)

SpecRunDeep == InitRunDeep /\ [][NextRunDeep]_vars

---------------------------------------------------------------------------
(* getBackoffTime as a function of its argument and of the value Math.random()
   returns: a double in [0, 1), here one of the fractions k / RandomGrain *)

MaxAttempt == 4
RandomGrain == 6001

InitBackoff ==
  /\ DriverIdle
  /\ RunIdle
  /\ call \in [fn : {"getBackoffTime"}, tries : 1..MaxAttempt,
               random : 0..(RandomGrain - 1)]
  /\ ret = NULL

\* getBackoffTime(tries) runs: Math.random() yields call.random / RandomGrain
CallGetBackoffTime ==
  /\ call.fn = "getBackoffTime" /\ ret = NULL
  /\ LET variance == MathRound(call.random * BACKOFF_TIME_VARIANCE, RandomGrain)
     IN ret' = getBackoffTime(call.tries, variance)
  /\ UNCHANGED <<driverVars, runVars, call>>

NextBackoff == CallGetBackoffTime

SpecBackoff == InitBackoff /\ [][NextBackoff]_vars

(* C11: for every attempt count a >= 1 and every random draw, getBackoffTime(a)
   lies in the closed interval [BASE * a^2, (BASE + VARIANCE) * a^2], with
   BASE = 20000 ms and VARIANCE = 3000 ms. *)
C11_BackoffRange ==
  (call.fn = "getBackoffTime" /\ ret # NULL) =>
     LET a == call.tries
     IN /\ 20000 * a * a <= ret
        /\ ret <= (20000 + 3000) * a * a

\* the third attempt with the largest draw: 207000 ms
C11_Witness ==
  /\ call.fn = "getBackoffTime" /\ call.tries = 3
  /\ ret = 207000

---------------------------------------------------------------------------
(* Vocabulary of the properties of the command *)

\* the four drivers of session v have resolved
AllResolved(v) == \A k \in KindSet : v.drv[k].pc = "done"

\* getAllContributions of session v is past its `await timeout(500)`
PastTimer(v) == v.timer = "fired"

\* session v has issued a page fetch
HasFetched(v) == \E k \in KindSet : v.drv[k].pc # "idle"

\* something of driver d is in progress: a fetch, a probe, a wait, the loop
Busy(d) == d.chains # {} \/ d.pc \in {"await", "interPage"}

(* C12: when the four streams of a user all succeed, getAllContributions
   returns, and the pullRequests, issues, reviews and repos fields of what it
   returns hold the sequences the corresponding drivers resolved with, in
   whatever order the four streams completed. *)
C12_FieldsOfStreams ==
  \A i \in DOMAIN sessions :
     (AllResolved(sessions[i]) /\ PastTimer(sessions[i])) =>
        /\ sessions[i].pc = "done"
        /\ \A k \in KindSet : sessions[i].contrib[k] = sessions[i].drv[k].returned

(* C13: for one login the rate-limit probe comes first and the four drivers are
   launched only after it: no page fetch is issued while the probe has not yet
   answered, and the four drivers are all started with the reset timestamp that
   probe returned. *)
C13_ProbeThenDrivers ==
  \A i \in DOMAIN sessions :
     LET v == sessions[i]
     IN /\ v.listr \in {"none", "probe", "probeWait"} => ~HasFetched(v)
        /\ HasFetched(v) =>
             /\ v.probeCalls = v.probeFails + 1
             /\ v.limitResetTime \in CheckResets
             /\ \A k \in KindSet :
                  /\ v.drv[k].pc # "idle"
                  /\ v.drv[k].limitResetAt = v.limitResetTime
                  /\ \A c \in v.drv[k].chains :
                       c.limitResetTime = v.limitResetTime

\* the probe failed once, its retry answered, and the four first fetches are out
C13_Witness ==
  \E i \in DOMAIN sessions :
     /\ sessions[i].probeFails = 1 /\ sessions[i].probeCalls = 2
     /\ \A k \in KindSet :
          \E c \in sessions[i].drv[k].chains : c.st = "fetch" /\ c.limitResetTime = 60000

(* C14: getAllContributions returns a result only after all four streams have
   completed, and when one stream fails fatally it fails: no value, not even a
   partial one, is produced for that user. *)
C14_AllOrNothing ==
  \A i \in DOMAIN sessions :
     LET v == sessions[i]
     IN /\ v.pc = "done" => AllResolved(v)
        /\ (\E k \in KindSet : v.drv[k].pc = "failed") =>
             /\ v.pc = "failed"
             /\ v.contrib = NoData /\ v.data = NoData
             /\ runpc = "failed"
             /\ Len(writes) < i

\* one stream failed fatally (its re-probe failed) after the three others had
\* resolved
C14_Witness ==
  \E i \in DOMAIN sessions :
     /\ sessions[i].pc = "failed"
     /\ sessions[i].drv["issues"].pc = "failed"
     /\ \A k \in KindSet \ {"issues"} : sessions[i].drv[k].pc = "done"

(* C15: across users run is strictly sequential: once runForUser has been
   called for a later login, the retrieval of every earlier login is complete:
   it has returned and none of its streams has a page fetch, a probe, a backoff
   or reset wait or a retry still in progress. *)
C15_OneUserAtATime ==
  \A i, j \in DOMAIN sessions :
     i < j =>
        /\ sessions[i].pc = "done"
        /\ \A k \in KindSet : ~Busy(sessions[i].drv[k])

\* the records of kind k that the first n calls of runForUser returned, in the
\* order of the calls
RECURSIVE DataOfAll(_, _)
DataOfAll(n, k) ==
  IF n = 0 THEN <<>> ELSE DataOfAll(n - 1, k) \o sessions[n].data[k]

\* every record of data is a record of login l
OnlyOf(data, l) ==
  \A k \in KindSet : \A n \in DOMAIN data[k] :
     data[k][n].user = l /\ data[k][n].url[1] = l

\* run was given a list of logins, without empty entries
ListOfLogins == loginList # <<>> /\ \A n \in DOMAIN loginList : loginList[n] # ""

(* C16: for a list of n logins whose retrievals all succeed: without combine
   there are exactly n writes, the k-th to <outDir>/<login k>, holding the
   records of login k only and made before the retrieval of login k + 1 starts;
   with combine there is exactly one write, to <outDir>, after all n retrievals,
   and each of its four sequences is the concatenation of the users' sequences
   in the order of the list. *)
C16_Writes ==
  ListOfLogins =>
     /\ argv.login = "a, b" => loginList = <<"a", "b">>
     /\ ~argv.combine =>
          /\ Len(writes) \in {Len(sessions) - 1, Len(sessions)}
          /\ Len(writes) = Len(sessions) => sessions[Len(sessions)].pc = "done"
          /\ \A k \in DOMAIN writes :
               /\ writes[k].dirPath = "out/" \o loginList[k]
               /\ writes[k].data = sessions[k].data
               /\ OnlyOf(writes[k].data, loginList[k])
          /\ runpc = "done" => Len(writes) = Len(loginList)
     /\ argv.combine =>
          /\ runpc # "done" => writes = <<>>
          /\ runpc = "done" =>
               /\ Len(sessions) = Len(loginList)
               /\ Len(writes) = 1
               /\ writes[1].dirPath = "out"
               /\ \A kind \in KindSet :
                    writes[1].data[kind] = DataOfAll(Len(loginList), kind)

\* two logins combined: one write with the two intact pull requests of each
C16_Witness ==
  /\ runpc = "done" /\ argv.combine /\ Len(loginList) = 2
  /\ Len(writes) = 1
  /\ Len(writes[1].data.pullRequests) = 4
  /\ writes[1].data.pullRequests[1].user = "a"
  /\ writes[1].data.pullRequests[4].user = "b"

\* the raw records of xs whose normalization does not throw, in the order of xs
Intact(xs) == SelectSeq(xs, LAMBDA x : x.intact)

(* C17: a record whose normalization throws is dropped and every other record
   is kept: for each stream the normalized output is, in order, the retrieved
   records whose normalization succeeded, and the failure does not abort the
   run: runForUser returns and run goes on to the write. *)
C17_DropsOnlyMalformed ==
  \A i \in DOMAIN sessions :
     sessions[i].pc = "done" =>
        /\ \A k \in KindSet :
             LET raw == sessions[i].contrib[k]
                 out == sessions[i].data[k]
             IN /\ Len(out) = Len(Intact(raw))
                /\ \A n \in DOMAIN out :
                     out[n].url = <<Intact(raw)[n].login, Intact(raw)[n].n>>
        /\ i = Len(sessions) => runpc = "done"
        /\ ~argv.combine => Len(writes) >= i
        /\ (argv.combine /\ runpc = "done") => Len(writes) = 1

\* the second of three pull requests was malformed: the first and the third
\* were written
C17_Witness ==
  /\ runpc = "done" /\ ~argv.combine /\ Len(writes) = 1
  /\ Len(sessions[1].contrib.pullRequests) = 3
  /\ ~sessions[1].contrib.pullRequests[2].intact
  /\ Len(writes[1].data.pullRequests) = 2
  /\ writes[1].data.pullRequests[1].url[2] = 1
  /\ writes[1].data.pullRequests[2].url[2] = 3

(* C18: a failure of the initial rate-limit probe of getAllContributions is
   fatal for that user and is not retried: the retrieval fails and no page fetch
   is issued for that user. *)
C18_ProbeFailureIsFatal ==
  \A i \in DOMAIN sessions :
     sessions[i].probeFails > 0 =>
        /\ sessions[i].pc = "failed"
        /\ sessions[i].probeCalls = 1
        /\ ~HasFetched(sessions[i])

(* C18, amended: a failure of the initial probe is not fatal: getAllContributions
   waits and probes again, once for every failure; meanwhile the retrieval
   goes on (neither getAllContributions nor run fails), and no page fetch is
   issued for that user before a probe has answered. *)
C18_ProbeFailureIsRetried ==
  \A i \in DOMAIN sessions :
     LET v == sessions[i]
     IN /\ v.listr # "none" =>
             v.probeCalls = v.probeFails + (IF v.listr = "probeWait" THEN 0 ELSE 1)
        /\ v.listr \in {"probe", "probeWait"} =>
             /\ v.pc = "orch" /\ runpc # "failed"
             /\ ~HasFetched(v)

\* the probe failed twice, the third probe answered and pages were fetched
C18_Witness ==
  \E i \in DOMAIN sessions :
     /\ sessions[i].probeFails = 2 /\ sessions[i].probeCalls = 3
     /\ sessions[i].pc = "done"
     /\ Len(sessions[i].contrib.pullRequests) = 3

(* C19: when no login is supplied, the viewer query is issued exactly once,
   getAllContributions runs exactly once, for the login the query returned, and
   exactly one write is made, to the output root, with or without combine; when
   the query yields no login, run fails before any probe or page fetch. *)
C19_ViewerLogin ==
  (argv.login = "" /\ cli = "called") =>
     /\ Len(sessions) = 1 /\ loginList = <<>>
     /\ LET v == sessions[1]
        IN /\ v.viewerCalls = 1
           /\ (v.pc # "viewer" /\ v.error # ViewerError /\ v.foundLogin = "") =>
                /\ v.pc = "failed" /\ v.error = LoginError /\ runpc = "failed"
                /\ v.probeCalls = 0 /\ ~HasFetched(v)
           /\ v.foundLogin # "" =>
                /\ v.login = v.foundLogin
                /\ v.probeCalls = v.probeFails + (IF v.listr = "probeWait" THEN 0 ELSE 1)
           /\ runpc # "done" => writes = <<>>
           /\ runpc = "done" =>
                /\ writes = <<[dirPath |-> "out", data |-> v.data]>>
                /\ OnlyOf(v.data, v.foundLogin)
                /\ v.foundLogin # ""

\* no login and combine: the viewer is b, and b's records are written to out
C19_Witness ==
  /\ argv.login = "" /\ argv.combine /\ runpc = "done"
  /\ Len(writes) = 1 /\ writes[1].dirPath = "out"
  /\ writes[1].data.pullRequests[1].user = "b"
  /\ sessions[1].viewerCalls = 1

\* the command line and the environment hold no credential
NoCredential == argv.env = "" /\ argv.token \in {"", "$GH_TOKEN"}

(* C20: a missing or empty credential (no --token value and no GH_TOKEN
   variable) is a fatal startup error: the handler throws before run is called,
   so no viewer query, probe or page fetch is ever issued and nothing is
   written. *)
C20_NoCredentialNoRun ==
  (NoCredential /\ cli # "idle") =>
     /\ cli \in {"start", "thrown"}
     /\ runpc = "idle"
     /\ sessions = <<>>
     /\ writes = <<>>

\* the handler has thrown: --token was given empty and GH_TOKEN is not set
C20_Witness ==
  /\ cli = "thrown"
  /\ argv.token = "" /\ argv.env = ""
  /\ sessions = <<>>

---------------------------------------------------------------------------
(* Properties of the Pagination Driver, continued *)

\* this step is the success path of a tryPull invocation: its retriever call
\* has resolved
FetchSucceeds ==
  /\ budget' = budget
  /\ \E c \in chains : c.st = "fetch" /\ c \notin chains'

\* this step is a rejected retriever call
FetchIsRejected ==
  /\ budget' < budget
  /\ \E c \in chains : c.st = "fetch" /\ c \notin chains'

(* C21: the accumulator grows only by appending: a successful page fetch
   lengthens allRecords by exactly the records of the page fetched, in order,
   after what was there; a failed fetch, throttled or fatal, leaves allRecords
   and the last page (hence the cursor) unchanged, and so does every other step. *)
C21_AppendOnly ==
  [][ /\ FetchSucceeds =>
           /\ allRecords' = allRecords \o result'.records
           /\ Len(allRecords') = Len(allRecords) + Len(result'.records)
      /\ FetchIsRejected => (allRecords' = allRecords /\ result' = result)
      /\ ~FetchSucceeds => (allRecords' = allRecords /\ result' = result)
    ]_vars

\* the second page was appended after a throttled and a refused fetch of it
C21_Witness ==
  /\ mainpc = "done" /\ Len(stream) = 2
  /\ allRecords = stream[1].records \o stream[2].records
  /\ Len(allRecords) = 4
  /\ \E i \in Retried : trace[i].cursor = 1 /\ IsThrottle(trace[i].err)
  /\ \E i \in Retried : trace[i].cursor = 1 /\ ~IsThrottle(trace[i].err)

(* C22: once retrieveAll has returned or failed, the stream is over: no
   retriever call, probe or sleep of it is outstanding (so none is issued or
   completes afterwards), and the record sequence it returned is not modified. *)
C22_QuietAfterReturn ==
  /\ mainpc \in {"done", "failed"} => chains = {}
  /\ mainpc = "done" => allRecords = returned

(* C23: a page whose fetch is throttled four or more times in a row (the long
   path: reset wait, probe, retry) and then succeeds, with every probe
   succeeding, gives the result of the failure-free run: the records of every
   page exactly once, in page order. *)
C23_LongPathIsTransparent ==
  (/\ mainpc = "done"
   /\ chains = {}
   /\ \E i \in Retried : trace[i].op = "reset"
   /\ \A i \in Retried : IsThrottle(trace[i].err)) =>
     /\ returned = retrieveAllNoRetry(stream, NULL, <<>>)
     /\ allRecords = retrieveAllNoRetry(stream, NULL, <<>>)

(* C24: liveness: the pages are finitely many, every probe is answered, the
   throttle failures are finitely many and every armed timer fires; then
   retrieveAll eventually returns. *)
C24_EventuallyReturns == <>(mainpc = "done")

\* retrieveAll has returned after two long-throttle recoveries
C24_Witness ==
  /\ mainpc = "done"
  /\ budget = 0
  /\ \E i, j \in Retried : i < j /\ trace[i].op = "reset" /\ trace[j].op = "reset"

\* this step is a probe of the long-throttle recovery that throws
ProbeIsRejected ==
  /\ budget' < budget
  /\ \E c \in chains : c.st = "probe" /\ c \notin chains'

(* C25: a failed re-probe in the long-throttle recovery is fatal for the
   stream: retrieveAll fails, with the probe's error. *)
C25_ReprobeFailureIsFatal ==
  [][ ProbeIsRejected => (mainpc' = "failed" /\ error' = ProbeError) ]_vars

\* before event i of the trace a recovery of the stream has re-probed and
\* started its retry with the probed reset time
ReprobedBefore(i) ==
  \E j \in 1..(i - 1) :
     /\ trace[j].op = "fetch"
     /\ trace[j].from # 0 /\ trace[j].chain # trace[j].from
     /\ trace[j].limit \in ProbeResets

(* C27: once a long-throttle recovery of the stream has re-probed, every later
   long-throttle wait of the stream, for the same page or a later one, lasts
   until the probed reset time plus 1 s, not the initial probe's. *)
C27_WaitsUseLatestProbe ==
  \A i \in Retried :
     (trace[i].op = "reset" /\ ReprobedBefore(i)) =>
        /\ trace[i].limit \in ProbeResets
        /\ trace[i].ms = RESET_SLACK + trace[i].limit

---------------------------------------------------------------------------
(* Properties of the four streams of one user *)

\* the reset times driver d works with: the one the loop passes to tryPull and
\* those of its tryPull invocations
TimesOf(d) == {d.limitResetAt} \cup {c.limitResetTime : c \in d.chains}

\* in this step a re-probe of driver d was answered and left the driver as e
Reprobes(d, e) == \E c \in d.chains : c.st = "probe" /\ c \notin e.chains

(* C26: the reset time a driver gets from its own re-probe is local to it: a
   step in which a sibling's re-probe is answered, like any step that is not
   the answer to the driver's own re-probe, brings no new reset time into the
   driver, whose loop keeps passing the initial probe's value. *)
C26_ReprobeIsLocal ==
  [][ \A i \in DOMAIN sessions : \A k \in KindSet :
        LET d == sessions[i].drv[k]
            e == sessions'[i].drv[k]
        IN (d.pc # "idle" /\ ~Reprobes(d, e)) =>
              /\ TimesOf(e) \subseteq TimesOf(d)
              /\ e.limitResetAt = sessions[i].limitResetTime
    ]_vars

\* one driver retries with the reset time it probed while a sibling that was
\* throttled waits with the initial probe's
C26_Witness ==
  \E i \in DOMAIN sessions : \E k1, k2 \in KindSet :
     /\ k1 # k2
     /\ \E c \in sessions[i].drv[k1].chains :
           c.limitResetTime \in ProbeResets /\ ~c.awaited
     /\ \E c \in sessions[i].drv[k2].chains :
           /\ c.st = "backoff"
           /\ c.limitResetTime = sessions[i].limitResetTime
           /\ c.limitResetTime \notin ProbeResets

\* the tryPull invocations of driver d that are in state st, by id
InState(d, st) == {c.id : c \in {x \in d.chains : x.st = st}}

\* a step that takes a driver from d to e calls the prober exactly for the
\* reset waits that end in it, and a probe that is answered starts the retry
ProbesFollowWaits(d, e) ==
  /\ InState(e, "probe") \ InState(d, "probe") =
        InState(d, "resetwait") \ InState(e, "resetwait")
  /\ \A c \in d.chains :
        (c.st \in {"fetch", "backoff"} /\ c \notin e.chains) =>
           c.id \notin InState(e, "probe")
  /\ \A c \in d.chains :
        (c.st = "probe" /\ c \notin e.chains /\ e.pc # "failed"
            /\ e.chains # d.chains \ {c}) =>
           \E r \in e.chains \ d.chains : r.st = "fetch" /\ r.tries = 1

\* the calls of the prober by the Orchestrator in session v, once the
\* concurrent retrieval has started
StartedRetrieval(v) == v.listr \in {"retrieve", "resolved", "rejected"} /\ v.probeCalls > 0

(* C28 as stated: the prober is called exactly once per user-run before the
   concurrent retrieval starts, and afterwards exactly once per completed
   long-throttle wait, after the wait and before the retry; never on the
   success path or the short-throttle path. *)
C28_ProbedOnceThenPerWait ==
  [][ \A i \in DOMAIN sessions' :
        /\ sessions'[i].probeCalls <= 1
        /\ StartedRetrieval(sessions'[i]) => sessions'[i].probeCalls = 1
        /\ i \in DOMAIN sessions =>
             \A k \in KindSet :
                ProbesFollowWaits(sessions[i].drv[k], sessions'[i].drv[k])
    ]_vars

(* C28, amended: before the concurrent retrieval starts the prober is called
   once, and once more after each failed attempt (10 s later); afterwards it is
   called exactly once per completed long-throttle wait, after the wait and
   before the retry; never on the success path or the short-throttle path. *)
C28_ProbedPerAttemptThenPerWait ==
  [][ \A i \in DOMAIN sessions' :
        /\ sessions'[i].probeCalls <= 1 + sessions'[i].probeFails
        /\ StartedRetrieval(sessions'[i]) =>
              sessions'[i].probeCalls = 1 + sessions'[i].probeFails
        /\ i \in DOMAIN sessions =>
             \A k \in KindSet :
                ProbesFollowWaits(sessions[i].drv[k], sessions'[i].drv[k])
    ]_vars

\* the initial probe failed once and was repeated, and later one stream
\* re-probed after its reset wait while another had only backed off
C28_Witness ==
  \E i \in DOMAIN sessions : \E k1, k2 \in KindSet :
     /\ sessions[i].probeFails = 1 /\ sessions[i].probeCalls = 2
     /\ \E c \in sessions[i].drv[k1].chains : ~c.awaited
     /\ k1 # k2 /\ sessions[i].drv[k2].pc = "done"

---------------------------------------------------------------------------
(* Properties of run, continued *)

(* C29: when the retrieval of the k-th login of the list fails, run fails and
   nothing is started for a later login; with combine nothing at all is
   written; without it the outputs of logins 1..k-1 are there, each in its own
   directory, and nothing is written for login k. *)
C29_FailureStopsRun ==
  \A k \in DOMAIN sessions :
     (sessions[k].pc = "failed" /\ loginList # <<>>) =>
        /\ runpc = "failed"
        /\ Len(sessions) = k /\ idx = k
        /\ argv.combine => writes = <<>>
        /\ ~argv.combine =>
             /\ Len(writes) = k - 1
             /\ \A j \in 1..(k - 1) :
                   writes[j] = [dirPath |-> join(outDir, loginList[j]),
                                data |-> sessions[j].data]

\* the second login of two failed after the first was written
C29_Witness ==
  /\ Len(loginList) = 2 /\ ~argv.combine
  /\ Len(sessions) = 2 /\ sessions[2].pc = "failed"
  /\ sessions[1].pc = "done"
  /\ Len(writes) = 1 /\ runpc = "failed"

---------------------------------------------------------------------------
(* Properties of the four streams of one user, continued *)

(* C30: the four streams of a user are independent: a step of one stream (a
   page fetched, a throttle failure, a backoff or reset wait ending, a probe
   answered, a retry) leaves the accumulator, the cursor, the attempt counters
   and the outstanding calls of the three others as they were; the four change
   together only when they are started, and what they then share is the reset
   time of the initial probe. *)
C30_StreamsAreIndependent ==
  [][ \A i \in DOMAIN sessions :
        LET changed == {k \in KindSet : sessions'[i].drv[k] # sessions[i].drv[k]}
        IN /\ Cardinality(changed) > 1 =>
                /\ changed = KindSet
                /\ \A k \in KindSet :
                      /\ sessions[i].drv[k] = IdleDriver
                      /\ sessions'[i].drv[k] = dStart(sessions'[i].limitResetTime)
           /\ \A k1, k2 \in KindSet :
                sessions'[i].drv[k1].limitResetAt = sessions'[i].drv[k2].limitResetAt
    ]_vars

\* one stream was throttled, backed off and recovered through the long path
\* while the three others returned their records
C30_Witness ==
  \E i \in DOMAIN sessions : \E k \in KindSet :
     /\ \E c \in sessions[i].drv[k].chains : ~c.awaited
     /\ \A j \in KindSet \ {k} :
           /\ sessions[i].drv[j].pc = "done"
           /\ sessions[i].drv[j].chains = {}
           /\ sessions[i].drv[j].allRecords =
                 RemoteStream(sessions[i].login, j)[1].records

---------------------------------------------------------------------------
(* Properties of the Pagination Driver: attempts, progress, waits, cursors *)

\* event i of the trace is the first retriever call made with its cursor
FirstFetchOfPage(i) ==
  /\ trace[i].op = "fetch"
  /\ \A j \in 1..(i - 1) :
        trace[j].op = "fetch" => trace[j].cursor # trace[i].cursor

(* C31: the attempt counter is per page: the first fetch of every page is made
   at attempt 1, and a fetch made at attempt a > 1 comes after a - 1 failed
   attempts of the same invocation on the same page, so failures on an earlier
   page neither lengthen the backoff nor bring the long path nearer for a
   later page. *)
C31_AttemptsArePerPage ==
  \A i \in DOMAIN trace :
     /\ FirstFetchOfPage(i) => trace[i].tries = 1
     /\ (trace[i].op = "fetch" /\ trace[i].tries > 1) =>
           \A j \in 1..(i - 1) :
              (trace[j].chain = trace[i].chain /\ trace[j].op = "backoff") =>
                 trace[j].cursor = trace[i].cursor

\* in this step a wait of kind st ("backoff", "resetwait") of the stream ends
WaitEnds(st) == \E c \in chains : c.st = st /\ c \notin chains'

\* the progress text "{recordName}: {allRecords.length}/{totalCount}", no note
PlainProgress(records, page) ==
  [count |-> Len(records), total |-> page.totalCount, note |-> ""]

(* C32: after every successful page fetch the progress text is
   "{streamName}: {accumulated}/{totalCount}", with the accumulator's length
   including that page and that page's totalCount; and whenever a backoff or a
   reset wait ends the text is put back to that form, without a wait note. *)
C32_ProgressText ==
  [][ /\ FetchSucceeds => title' = PlainProgress(allRecords', result')
      /\ WaitEnds("backoff") => title' = PlainProgress(allRecords', result')
      /\ WaitEnds("resetwait") => title' = PlainProgress(allRecords', result')
    ]_vars

---------------------------------------------------------------------------
(* The reset wait of the long-throttle path as a function of the reset time
   and of the clock at the moment of the failure: waitTime, then
   timeout(waitTime, 100, ...), then the probe and the retry.  Times are ms;
   the clock values are WaitGrain apart and put waitTime in -MaxWait..MaxWait *)

MaxWait == 600
WaitGrain == 25
TIMEOUT_MAX == 2147483647

\* the clock readings `new Date().valueOf()` tried for reset time r
Clocks(r) ==
  {r + RESET_SLACK + WaitGrain * k : k \in (0 - MaxWait \div WaitGrain)..(MaxWait \div WaitGrain)}

\* let waitTime = 1000 + (limitResetTime.valueOf() - new Date().valueOf())
waitTimeAt(limitResetTime, now) == RESET_SLACK + (limitResetTime - now)

\* mutant: the timer runs for the magnitude of the delay it is given
setTimeoutMagnitude(n) == IF n < 0 THEN 0 - n ELSE n

\* setTimeout(fn, n): a delay below 1 or above TIMEOUT_MAX is set to 1
setTimeoutDelay(n) == IF n < 1 \/ n > TIMEOUT_MAX THEN 1 ELSE n

NoWait == [st |-> "idle", waitTime |-> 0, delay |-> 0, elapsed |-> 0, ticks |-> 0]

InitWait ==
  /\ DriverIdle
  /\ RunIdle
  /\ \E r \in InitialResets : \E now \in Clocks(r) :
        call = [fn |-> "resetWait", limitResetTime |-> r, now |-> now]
  /\ ret = NoWait

\* the catch block at attempt >= 4: waitTime is computed and timeout(waitTime,
\* 100, tickFn) arms the interval and the timer
ResetWaitArm ==
  /\ call.fn = "resetWait" /\ ret.st = "idle"
  /\ LET waitTime == waitTimeAt(call.limitResetTime, call.now)
     IN ret' = [st |-> "waiting", waitTime |-> waitTime,
                delay |-> setTimeoutDelay(waitTime), elapsed |-> 0, ticks |-> 0]
  /\ UNCHANGED <<driverVars, runVars, call>>

\* the interval fires: tickFn(elapsed); it was set before the timer, so it
\* runs first when both are due
ResetWaitTick ==
  /\ call.fn = "resetWait" /\ ret.st = "waiting"
  /\ ret.elapsed + TICK <= ret.delay
  /\ ret' = [ret EXCEPT !.elapsed = ret.elapsed + TICK, !.ticks = ret.ticks + 1]
  /\ UNCHANGED <<driverVars, runVars, call>>

\* the timer fires: clearInterval, res(), and getRateLimitInfo(token) is called
ResetWaitFires ==
  /\ call.fn = "resetWait" /\ ret.st = "waiting"
  /\ ret.elapsed + TICK > ret.delay
  /\ ret' = [ret EXCEPT !.st = "probe", !.elapsed = ret.delay]
  /\ UNCHANGED <<driverVars, runVars, call>>

\* the probe answers: tryPull(newRateInfo.resetAt, 1)
ResetWaitProbed ==
  /\ call.fn = "resetWait" /\ ret.st = "probe"
  /\ ret' = [ret EXCEPT !.st = "retry"]
  /\ UNCHANGED <<driverVars, runVars, call>>

NextWait ==
  \/ ResetWaitArm
  \/ ResetWaitTick
  \/ ResetWaitFires
  \/ ResetWaitProbed

SpecWait == InitWait /\ [][NextWait]_vars

(* C33: in the long-throttle path, when the reset time plus 1 s has already
   passed at the moment of the failure (waitTime <= 0), the driver does not
   block: the timer is due at once (the 1 ms minimum), no tick runs, and the
   probe and then the retry follow; no wait lasts for a time derived from the
   negative value. *)
C33_PastResetDoesNotBlock ==
  (call.fn = "resetWait" /\ ret.st # "idle" /\ ret.waitTime <= 0) =>
     /\ ret.delay = 1
     /\ ret.ticks = 0
     /\ ret.elapsed <= 1
     /\ ret.st \in {"probe", "retry"} => ret.elapsed = 1

\* the retry was started after a wait computed as -600 ms
C33_Witness ==
  /\ call.fn = "resetWait" /\ ret.st = "retry"
  /\ ret.waitTime = 0 - ((MaxWait \div WaitGrain) * WaitGrain)
  /\ ret.waitTime < 0
  /\ ret.ticks = 0

\* this step issues a retriever call
FetchIsIssued ==
  /\ Len(trace') = Len(trace) + 1
  /\ trace'[Len(trace')].op = "fetch"

(* C34: every request carries the endCursor of the most recently fetched page
   as its after-cursor, and a request without an after-cursor (a request for
   the first page) is issued only while no page has been fetched, as the first
   fetch of the stream or a retry of it; this also when a page reports
   hasNextPage = true together with a null endCursor. *)
C34_CursorOfLastPage ==
  [][ FetchIsIssued =>
        LET ev == trace'[Len(trace')]
        IN /\ ev.cursor = result'.pageInfo.endCursor
           /\ ev.cursor = NULL => result' = SentinelPage
    ]_vars

---------------------------------------------------------------------------
(* Properties of the Orchestrator and of run, continued *)

(* C35: the "Retrieved data" summary of the clean-up step reports the lengths
   of the four sequences retrieved for the user, whatever the timing of the
   rate-limit probe: answered within 500 ms, later, or after retries. *)
C35_SummaryCountsRecords ==
  \A i \in DOMAIN sessions :
     sessions[i].listr = "resolved" =>
        \A k \in KindSet :
           sessions[i].summary[k] = Len(sessions[i].drv[k].allRecords)

(* C36: for a comma-separated login string of n entries run calls the per-user
   retrieval once per entry, in list order, each time for the login the entry
   names: no entry is skipped or repeated, none is replaced by another login
   (the token owner's), and a run that ends has made the n calls. *)
C36_OneRetrievalPerEntry ==
  loginList # <<>> =>
     /\ Len(sessions) <= Len(loginList)
     /\ runpc = "done" => Len(sessions) = Len(loginList)
     /\ \A i \in DOMAIN sessions :
           /\ sessions[i].entry = loginList[i]
           /\ sessions[i].viewerCalls = 0
           /\ sessions[i].pc \in {"orch", "done"} => sessions[i].login = loginList[i]
           /\ sessions[i].probeCalls > 0 => sessions[i].login = loginList[i]

====
